---- MODULE Spec2Model ----
(***************************************************************************)
(* Model of the receipt extraction and reconciliation code of              *)
(* src/services/mistralService.ts: recalculateFinancials (the Financial    *)
(* Reconciler), parseViaRegex (the regex fallback extractor) and           *)
(* parseReceiptWithGemini (the AI adapter that drives both); and of the    *)
(* App component of src/App.tsx, whose handleProcess runs processDocument  *)
(* and parseReceiptWithGemini in turn while the user selects and clears    *)
(* inputs.                                                                 *)
(*                                                                         *)
(* JavaScript values are records [t, v]:                                   *)
(*   t = "num"   a finite number; v is its value                           *)
(*   t = "inf", "ninf", "nan"   the IEEE values Infinity, -Infinity, NaN   *)
(*   t = "undef" null or undefined (an absent field)                       *)
(*   t = "str"   a string that is not numeric                              *)
(*   t = "numstr" a value that is not a number but converts to the finite  *)
(*               number v: a numeric string ("50"), true, [50]             *)
(*   t = "arr"   an array; v is the sequence of its elements               *)
(* Money is held in units of 1/Scale of a kurus (1/100 lira), so that      *)
(* price * rate / (100 + rate) and total * 0.18 are exact for every rate   *)
(* of the model and every amount of whole thousandths; VAT rates are held  *)
(* in whole percent.  Arithmetic is exact: the binary64 rounding of the    *)
(* build is not modelled.                                                  *)
(*                                                                         *)
(* A string is the sequence of its characters; a run of letters is held as *)
(* one element ("TOPLAM"), every other character as an element of its own. *)
(* The OCR text is the sequence of its lines (text.split('\n')).           *)
(***************************************************************************)
EXTENDS Integers, Sequences, FiniteSets, TLC

VARIABLES
    pc,            \* position of the invocation
    apiKey,        \* the credential passed to parseReceiptWithGemini
    markdownText,  \* the OCR text passed to parseReceiptWithGemini
    response,      \* how the generateContent request ended
    data,          \* the record handed to recalculateFinancials (parsedData)
    result,        \* the record returned
    reconciled,    \* number of calls of recalculateFinancials that returned
    requests,      \* number of generateContent requests sent so far
    returnedObject, \* the object the last call of recalculateFinancials
                   \* returned: its argument ("input") or a new one ("new")
    mistralApiKey, \* import.meta.env.VITE_MISTRAL_API_KEY
    geminiApiKey,  \* import.meta.env.VITE_GEMINI_API_KEY
    inputSource,   \* App state: the selected input, "null" when none
    status,        \* App state: status
    statusMessage, \* App state: statusMessage
    appResult,     \* App state: result, Null or the record of a run
    runs           \* the invocations of handleProcess so far, with the
                   \* position of each

\* the state of the services and the state of the App
serviceVars ==
    <<pc, apiKey, markdownText, response, data, result, reconciled, requests,
      returnedObject>>
appVars ==
    <<mistralApiKey, geminiApiKey, inputSource, status, statusMessage,
      appResult, runs>>
vars == <<serviceVars, appVars>>

----------------------------------------------------------------------------
(* Bounds *)

MaxItems == 2      \* longest items array of an input record
MaxApply == 2      \* applications of the Reconciler in SpecReconcile
MaxRuns == 2       \* invocations of handleProcess in SpecApp

----------------------------------------------------------------------------
(* JavaScript numbers *)

\* the VAT rates of the model, in percent; -100 makes 100 + rate zero
RateSet == {-100, -50, 0, 10, 20}

\* n parts make a tenth of a kurus (a thousandth of a lira) of which the
\* hundredth (for total * 0.18) and the (100 + rate)th are whole
Divides(n) ==
    /\ n % 100 = 0
    /\ \A r \in RateSet : (100 + r) # 0 => n % (100 + r) = 0

\* money unit: the parts of a kurus, ten times the least such n
Scale ==
    10 * (CHOOSE n \in 1..10000 :
              Divides(n) /\ \A m \in 1..(n - 1) : ~ Divides(m))

Num(n) == [t |-> "num", v |-> n]
Undef == [t |-> "undef", v |-> 0]
Str == [t |-> "str", v |-> 0]
NumStr(n) == [t |-> "numstr", v |-> n]
PosInf == [t |-> "inf", v |-> 0]
NegInf == [t |-> "ninf", v |-> 0]
NaN == [t |-> "nan", v |-> 0]
Arr(s) == [t |-> "arr", v |-> s]

Kurus(c) == Num(c * Scale)               \* c hundredths of a lira
Mils(m) == Num(m * (Scale \div 10))      \* m thousandths of a lira

IsFinite(x) == x.t = "num"
IsNumber(x) == x.t \in {"num", "inf", "ninf", "nan"}
Abs(n) == IF n < 0 THEN -n ELSE n
Sign(n) == IF n < 0 THEN -1 ELSE IF n > 0 THEN 1 ELSE 0

\* Number(x)
ToNumber(x) ==
    IF IsNumber(x) THEN x ELSE IF x.t = "numstr" THEN Num(x.v) ELSE NaN

\* x > 0
GtZero(x) == (x.t \in {"num", "numstr"} /\ x.v > 0) \/ x.t = "inf"

\* the truthiness of x (an array is an object, hence truthy)
Truthy(x) ==
    CASE x.t = "num" -> x.v # 0
      [] x.t \in {"undef", "nan"} -> FALSE
      [] OTHER -> TRUE

\* x || 0
OrZero(x) == IF Truthy(x) THEN x ELSE Num(0)

\* a + b on numbers
Add(a, b) ==
    CASE a.t = "nan" \/ b.t = "nan" -> NaN
      [] a.t = "num" /\ b.t = "num" -> Num(a.v + b.v)
      [] a.t = "num" -> b
      [] b.t = "num" -> a
      [] a.t = b.t -> a
      [] OTHER -> NaN

Neg(a) ==
    CASE a.t = "num" -> Num(-a.v)
      [] a.t = "inf" -> NegInf
      [] a.t = "ninf" -> PosInf
      [] OTHER -> NaN

\* a - b on numbers
Sub(a, b) == Add(a, Neg(b))

\* x.toFixed(2) read back by Number(): the nearest hundredth, a tie going
\* away from zero; Infinity and NaN print and read back as themselves
toFixed2(x) ==
    IF x.t = "num"
    THEN Num(Sign(x.v) * ((Abs(x.v) + Scale \div 2) \div Scale) * Scale)
    ELSE x

\* x.toFixed is not a function (a TypeError) unless x is a number
toFixedThrows(x) == ~ IsNumber(x)

----------------------------------------------------------------------------
(* recalculateFinancials *)

\* const price = Number(item.totalPrice) || 0
ItemPrice(item) == OrZero(ToNumber(item.totalPrice))

\* const rate = Number(item.vatRate) || 0
ItemRate(item) == OrZero(ToNumber(item.vatRate))

\* taxAmount as it would be with the tax-exclusive formula price * rate / 100
taxAmountExclusive(price, rate) == Num((price.v \div 100) * rate.v)

\* price * (rate / (100 + rate)); both arguments are finite numbers
taxAmount(price, rate) ==
    IF 100 + rate.v # 0
    THEN Num((price.v \div (100 + rate.v)) * rate.v)
    ELSE \* rate / 0 is -Infinity for the negative rate -100
         CASE price.v > 0 -> NegInf
           [] price.v < 0 -> PosInf
           [] OTHER -> NaN

\* baseAmount as it would be if the tax taken off were price * rate / 100
baseAmountLessExclusive(price, rate) ==
    Sub(price, taxAmountExclusive(price, rate))

\* baseAmount as it would be if the tax were never taken off the gross price
baseAmountGross(price, rate) == price

\* price - taxAmount
baseAmount(price, rate) == Sub(price, taxAmount(price, rate))

ItemTax(item) == taxAmount(ItemPrice(item), ItemRate(item))
ItemBase(item) == baseAmount(ItemPrice(item), ItemRate(item))

\* the running sums of the forEach over items
RECURSIVE calculatedTotal(_)
calculatedTotal(items) ==
    IF items = <<>> THEN Num(0)
    ELSE Add(calculatedTotal(SubSeq(items, 1, Len(items) - 1)),
             ItemPrice(items[Len(items)]))

RECURSIVE calculatedTax(_)
calculatedTax(items) ==
    IF items = <<>> THEN Num(0)
    ELSE Add(calculatedTax(SubSeq(items, 1, Len(items) - 1)),
             ItemTax(items[Len(items)]))

RECURSIVE calculatedSubtotal(_)
calculatedSubtotal(items) ==
    IF items = <<>> THEN Num(0)
    ELSE Add(calculatedSubtotal(SubSeq(items, 1, Len(items) - 1)),
             ItemBase(items[Len(items)]))

\* breakdownMap as it would be if an item overwrote (=) the entry of its rate
\* instead of adding to it (+=)
RECURSIVE breakdownMapLast(_, _)
breakdownMapLast(items, rate) ==
    IF items = <<>> THEN [base |-> Num(0), amount |-> Num(0)]
    ELSE LET item == items[Len(items)]
         IN  IF ItemRate(item) = rate
             THEN [base |-> ItemBase(item), amount |-> ItemTax(item)]
             ELSE breakdownMapLast(SubSeq(items, 1, Len(items) - 1), rate)

\* breakdownMap[rate] after the forEach: the sums over the items of that rate
RECURSIVE breakdownMap(_, _)
breakdownMap(items, rate) ==
    IF items = <<>> THEN [base |-> Num(0), amount |-> Num(0)]
    ELSE LET rest == breakdownMap(SubSeq(items, 1, Len(items) - 1), rate)
             item == items[Len(items)]
         IN  IF ItemRate(item) = rate
             THEN [base |-> Add(rest.base, ItemBase(item)),
                   amount |-> Add(rest.amount, ItemTax(item))]
             ELSE rest

\* InsertionOrder as it would be if the breakdown were an array pushed to
\* once per item
RECURSIVE InsertionOrderAll(_)
InsertionOrderAll(items) ==
    IF items = <<>> THEN <<>>
    ELSE Append(InsertionOrderAll(SubSeq(items, 1, Len(items) - 1)),
                ItemRate(items[Len(items)]))

\* the rates in the order of their first item
RECURSIVE InsertionOrder(_)
InsertionOrder(items) ==
    IF items = <<>> THEN <<>>
    ELSE LET rest == InsertionOrder(SubSeq(items, 1, Len(items) - 1))
             rate == ItemRate(items[Len(items)])
         IN  IF \E i \in 1..Len(rest) : rest[i] = rate THEN rest
             ELSE Append(rest, rate)

\* the sequence of the elements of a set of whole rates, ascending
RECURSIVE Ascending(_)
Ascending(S) ==
    IF S = {} THEN <<>>
    ELSE LET m == CHOOSE x \in S : \A y \in S : x.v <= y.v
         IN  <<m>> \o Ascending(S \ {m})

\* Object.keys(breakdownMap): the keys that are array indices (whole and not
\* negative) ascending, then the other keys in insertion order
ObjectKeys(items) ==
    LET order == InsertionOrder(items)
        IsIndex(r) == r.v >= 0
    IN  Ascending({order[i] : i \in {j \in 1..Len(order) : IsIndex(order[j])}})
        \o SelectSeq(order, LAMBDA r : ~ IsIndex(r))

newBreakdown(items) ==
    LET keys == ObjectKeys(items)
    IN  [i \in 1..Len(keys) |->
            [rate |-> keys[i],
             base |-> toFixed2(breakdownMap(items, keys[i]).base),
             amount |-> toFixed2(breakdownMap(items, keys[i]).amount)]]

\* finalTotal as it would be if consistency were forced
finalTotalForced(d) == calculatedTotal(d.items.v)

finalTotal(d) ==
    IF GtZero(d.total) THEN d.total ELSE calculatedTotal(d.items.v)

finalTax(d) ==
    IF Truthy(d.tax) /\ GtZero(d.tax) THEN d.tax ELSE calculatedTax(d.items.v)

finalSubtotal(d) ==
    IF Truthy(d.subtotal) /\ GtZero(d.subtotal) THEN d.subtotal
    ELSE calculatedSubtotal(d.items.v)

\* finalBreakdown as it would be if the computed entries were merged into the
\* supplied ones
finalBreakdownMerged(d) ==
    IF Truthy(d.taxBreakdown)
    THEN Arr(d.taxBreakdown.v \o newBreakdown(d.items.v))
    ELSE Arr(newBreakdown(d.items.v))

finalBreakdown(d) ==
    IF Truthy(d.taxBreakdown) /\ Len(d.taxBreakdown.v) > 0 THEN d.taxBreakdown
    ELSE Arr(newBreakdown(d.items.v))

\* which object recalculateFinancials returns: `return data` hands back the
\* argument itself, `return { ...data, ... }` a new object
objectReturned(d) ==
    IF ~ Truthy(d.items) \/ Len(d.items.v) = 0 THEN "input" ELSE "new"

\* recalculateFinancials as it would be without the test of items.length
recalculateFinancialsNoLength(d) ==
    IF ~ Truthy(d.items) THEN d
    ELSE [d EXCEPT !.total = toFixed2(finalTotal(d)),
                   !.tax = toFixed2(finalTax(d)),
                   !.subtotal = toFixed2(finalSubtotal(d)),
                   !.taxBreakdown = finalBreakdown(d)]

\* recalculateFinancials as it would be if the record were built anew from
\* the fields the Reconciler reads, leaving totalInWords out
recalculateFinancialsRebuilt(d) ==
    IF ~ Truthy(d.items) \/ Len(d.items.v) = 0 THEN d
    ELSE [d EXCEPT !.total = toFixed2(finalTotal(d)),
                   !.tax = toFixed2(finalTax(d)),
                   !.subtotal = toFixed2(finalSubtotal(d)),
                   !.taxBreakdown = finalBreakdown(d),
                   !.totalInWords = <<>>]

\* the call ends with a TypeError: one of the three final values, taken
\* from the record because it compares > 0, is not a number
recalculateFinancialsThrows(d) ==
    /\ Truthy(d.items) /\ Len(d.items.v) # 0
    /\ \/ toFixedThrows(finalTotal(d))
       \/ toFixedThrows(finalTax(d))
       \/ toFixedThrows(finalSubtotal(d))

\* the record returned when the call does not throw
recalculateFinancials(d) ==
    IF ~ Truthy(d.items) \/ Len(d.items.v) = 0 THEN d
    ELSE [d EXCEPT !.total = toFixed2(finalTotal(d)),
                   !.tax = toFixed2(finalTax(d)),
                   !.subtotal = toFixed2(finalSubtotal(d)),
                   !.taxBreakdown = finalBreakdown(d)]

----------------------------------------------------------------------------
(* Strings and the regular expressions of parseViaRegex *)

Min(S) == CHOOSE x \in S : \A y \in S : x <= y
Max(S) == CHOOSE x \in S : \A y \in S : x >= y

\* the least index from i on whose character is not in the class P, or
\* Len(s) + 1; the greatest index up to j whose character is not in P, or 0
FirstNot(s, i, P) ==
    LET J == {j \in i..Len(s) : s[j] \notin P}
    IN  IF J = {} THEN Max({i, Len(s) + 1}) ELSE Min(J)

LastNot(s, j, P) ==
    LET I == {i \in 1..j : s[i] \notin P}
    IN  IF I = {} THEN 0 ELSE Max(I)

Digits == <<"0", "1", "2", "3", "4", "5", "6", "7", "8", "9">>

\* the character classes, as sets and as tests
SpaceClass == {" ", "\n", "\t"}                        \* \s
DigitClass == {Digits[i] : i \in 1..Len(Digits)}       \* \d
NumClass == DigitClass \cup {",", "."}                 \* [\d,.]
MarkupClass == {"#", "*"}                              \* [#*]
TotalSkipClass == SpaceClass \cup {":", "*"}           \* [\s:*]

IsSpace(c) == c \in SpaceClass
IsDigit(c) == c \in DigitClass
IsNumChar(c) == c \in NumClass
IsCurrency(c) == c \in {"$", "EUR", "TL"}            \* [$...], the euro and lira signs
IsDateSep(c) == c \in {".", "/", "-"}                \* [./-]

\* the runs of letters of the model that end with TOPLAM, TOTAL, TUTAR or
\* AMOUNT in any case, so that /(?:TOPLAM|TOTAL|TUTAR|AMOUNT)/i can match
\* with the next character following the keyword
EndsWithTotalKeyword(c) ==
    c \in {"TOPLAM", "Toplam", "TOTAL", "TUTAR", "AMOUNT", "SUBTOTAL"}

\* HasSummaryKeyword as it would be with /toplam|subtotal|total/i
HasSummaryKeywordTotals(c) ==
    c \in {"TOPLAM", "Toplam", "TOTAL", "SUBTOTAL"}

\* the runs of letters of the model that /toplam|kdv|subtotal|total|ara toplam/i
\* matches somewhere
HasSummaryKeyword(c) ==
    c \in {"TOPLAM", "Toplam", "TOTAL", "SUBTOTAL", "KDV"}

\* s.trim()
trim(s) == SubSeq(s, FirstNot(s, 1, SpaceClass), LastNot(s, Len(s), SpaceClass))

\* s.replace(',', '.'): the first comma only
replaceComma(s) ==
    LET I == {i \in 1..Len(s) : s[i] = ","}
    IN  IF I = {} THEN s ELSE [s EXCEPT ![Min(I)] = "."]

DigitValue(c) == (CHOOSE i \in 1..Len(Digits) : Digits[i] = c) - 1

\* the whole number a run of digits writes
RECURSIVE DigitsValue(_)
DigitsValue(ds) ==
    IF ds = <<>> THEN 0
    ELSE 10 * DigitsValue(SubSeq(ds, 1, Len(ds) - 1)) + DigitValue(ds[Len(ds)])

\* parseFloat(s) of a string of digits, commas and dots: the longest prefix
\* of the form digits [. digits], NaN when it holds no digit.  The strings
\* of the model have at most 3 decimals; the value is in thousandths.
parseFloat(s) ==
    LET a == FirstNot(s, 1, DigitClass)
        whole == SubSeq(s, 1, a - 1)
        b == IF a <= Len(s) /\ s[a] = "." THEN FirstNot(s, a + 1, DigitClass) ELSE a
        frac == SubSeq(s, a + 1, b - 1)
        frac3 == SubSeq(frac \o <<"0", "0", "0">>, 1, 3)
    IN  IF whole = <<>> /\ frac = <<>> THEN NaN
        ELSE Mils(1000 * DigitsValue(whole) + DigitsValue(frac3))

\* text.split('\n') undone: the text as one string
RECURSIVE JoinLines(_)
JoinLines(text) ==
    IF text = <<>> THEN <<>>
    ELSE IF Len(text) = 1 THEN text[1]
    ELSE text[1] \o <<"\n">> \o JoinLines(Tail(text))

\* text.split('\n').filter(line => line.trim() !== '')
NonEmptyLines(text) == SelectSeq(text, LAMBDA l : trim(l) # <<>>)

\* lines[0]?.replace(/^[#*]+\s*/, '') || ""
merchantNameOf(lines) ==
    IF lines = <<>> THEN <<>>
    ELSE LET l == lines[1]
             a == FirstNot(l, 1, MarkupClass)
         IN  IF a = 1 THEN l ELSE SubSeq(l, FirstNot(l, a, SpaceClass), Len(l))

\* group 1 of totalRegex when the keyword ends at the element i of s: the
\* run of [\d,.] after any [\s:*]; empty when the regex does not match there
TotalCapture(s, i) ==
    LET a == FirstNot(s, i + 1, TotalSkipClass)
        b == FirstNot(s, a, NumClass)
    IN  SubSeq(s, a, b - 1)

\* totalMatch as it would be if the last match were taken
totalMatchLast(text) ==
    LET s == JoinLines(text)
        I == {i \in 1..Len(s) :
                 EndsWithTotalKeyword(s[i]) /\ TotalCapture(s, i) # <<>>}
    IN  IF I = {} THEN <<>> ELSE TotalCapture(s, Max(I))

\* text.match(totalRegex): group 1 of the leftmost match, empty when none
totalMatch(text) ==
    LET s == JoinLines(text)
        I == {i \in 1..Len(s) :
                 EndsWithTotalKeyword(s[i]) /\ TotalCapture(s, i) # <<>>}
    IN  IF I = {} THEN <<>> ELSE TotalCapture(s, Min(I))

\* let total = 0; if (totalMatch) total = parseFloat(totalMatch[1].replace(',', '.'))
totalOf(text) ==
    IF totalMatch(text) = <<>> THEN Num(0)
    ELSE parseFloat(replaceComma(totalMatch(text)))

DigitsAt(s, i, n) == i + n - 1 <= Len(s) /\ \A k \in i..(i + n - 1) : IsDigit(s[k])
SepAt(s, i) == i <= Len(s) /\ IsDateSep(s[i])

\* the length of the match of dateRegex that starts at i, 0 when none: first
\* \d{2}[./-]\d{2}[./-]\d{2,4}, then \d{4}[./-]\d{2}[./-]\d{2}
DateLenAt(s, i) ==
    IF /\ DigitsAt(s, i, 2) /\ SepAt(s, i + 2) /\ DigitsAt(s, i + 3, 2)
       /\ SepAt(s, i + 5) /\ DigitsAt(s, i + 6, 2)
    THEN IF DigitsAt(s, i + 6, 4) THEN 10
         ELSE IF DigitsAt(s, i + 6, 3) THEN 9 ELSE 8
    ELSE IF /\ DigitsAt(s, i, 4) /\ SepAt(s, i + 4) /\ DigitsAt(s, i + 5, 2)
            /\ SepAt(s, i + 7) /\ DigitsAt(s, i + 8, 2)
         THEN 10 ELSE 0

\* text.match(dateRegex): the leftmost match, "" when none
dateOf(text) ==
    LET s == JoinLines(text)
        I == {i \in 1..Len(s) : DateLenAt(s, i) > 0}
    IN  IF I = {} THEN <<>>
        ELSE SubSeq(s, Min(I), Min(I) + DateLenAt(s, Min(I)) - 1)

\* line.replace(/^\|\s*/, '').replace(/\s*\|$/, '')
cleanLine(line) ==
    LET l == IF line # <<>> /\ line[1] = "|"
             THEN SubSeq(line, FirstNot(line, 2, SpaceClass), Len(line))
             ELSE line
    IN  IF l # <<>> /\ l[Len(l)] = "|"
        THEN SubSeq(l, 1, LastNot(l, Len(l) - 1, SpaceClass))
        ELSE l

\* cleanLine.match(priceLineRegex), /(.+?)\s+([\d,.]+)\s*([$...]?)$/: the
\* line ends with white space, a run of [\d,.], white space if any and a
\* currency sign if any, after a first part of at least one character
priceLineMatch(c) ==
    LET e == IF c # <<>> /\ IsCurrency(c[Len(c)]) THEN Len(c) - 1 ELSE Len(c)
        numEnd == LastNot(c, e, SpaceClass)
        numStart == LastNot(c, numEnd, NumClass) + 1
        descEnd == Max({1, LastNot(c, numStart - 1, SpaceClass)})
    IN  IF /\ numStart <= numEnd
           /\ numStart >= 2 /\ IsSpace(c[numStart - 1])
           /\ descEnd <= numStart - 2
        THEN [matched |-> TRUE, desc |-> SubSeq(c, 1, descEnd),
              price |-> SubSeq(c, numStart, numEnd)]
        ELSE [matched |-> FALSE, desc |-> <<>>, price |-> <<>>]

\* itemsOfLine as it would be without the test price > 0
itemsOfLineAnyPrice(line) ==
    LET match == priceLineMatch(cleanLine(line))
        desc == trim(match.desc)
        price == parseFloat(replaceComma(match.price))
    IN  IF /\ match.matched
           /\ ~ \E i \in 1..Len(desc) : HasSummaryKeyword(desc[i])
           /\ price.t = "num"
        THEN <<[description |-> desc, quantity |-> Num(1), unitPrice |-> price,
                totalPrice |-> price, category |-> "General",
                vatRate |-> Num(20)]>>
        ELSE <<>>

\* the items the body of lines.slice(1, -3).forEach pushes for one line
itemsOfLine(line) ==
    LET match == priceLineMatch(cleanLine(line))
        desc == trim(match.desc)
        price == parseFloat(replaceComma(match.price))
    IN  IF /\ match.matched
           /\ ~ \E i \in 1..Len(desc) : HasSummaryKeyword(desc[i])
           /\ price.t = "num" /\ price.v > 0
        THEN <<[description |-> desc, quantity |-> Num(1), unitPrice |-> price,
                totalPrice |-> price, category |-> "General",
                vatRate |-> Num(20)]>>
        ELSE <<>>

\* candidateLines as it would be with lines.slice(1): the last three lines
\* are candidates too
candidateLinesAll(lines) == SubSeq(lines, 2, Len(lines))

\* lines.slice(1, -3)
candidateLines(lines) == SubSeq(lines, 2, Len(lines) - 3)

RECURSIVE itemsOfLines(_)
itemsOfLines(ls) ==
    IF ls = <<>> THEN <<>>
    ELSE itemsOfLine(Head(ls)) \o itemsOfLines(Tail(ls))

\* items.reduce((acc, item) => acc + item.totalPrice, 0)
RECURSIVE calculatedSubtotalRegex(_)
calculatedSubtotalRegex(items) ==
    IF items = <<>> THEN Num(0)
    ELSE Add(calculatedSubtotalRegex(SubSeq(items, 1, Len(items) - 1)),
             items[Len(items)].totalPrice)

\* finalTotal as it would be if the sum of the items never stood in for a
\* total that was not detected
finalTotalRegexDetected(total, items) == total

\* total > 0 ? total : calculatedSubtotal
finalTotalRegex(total, items) ==
    IF GtZero(total) THEN total ELSE calculatedSubtotalRegex(items)

\* taxRegex as it would be with the items' rate of 20 taken out of the
\* total: finalTotal * 20 / 120
taxRegexInclusive(total) ==
    IF total.t = "num" THEN Num((total.v \div 120) * 20) ELSE total

\* finalTotal * 0.18
taxRegex(total) ==
    IF total.t = "num" THEN Num((total.v \div 100) * 18) ELSE total

\* parseViaRegex as it would be without the placeholder item
parseViaRegexNoPlaceholder(text) ==
    LET lines == NonEmptyLines(text)
        items == itemsOfLines(candidateLines(lines))
        total == finalTotalRegex(totalOf(text), items)
        tax == taxRegex(total)
    IN  [merchantName |-> merchantNameOf(lines),
         date |-> dateOf(text),
         items |-> Arr(items),
         subtotal |-> Sub(total, tax),
         tax |-> tax,
         taxBreakdown |-> Undef,
         total |-> total,
         totalInWords |-> <<>>,
         currency |-> <<"TL">>]

parseViaRegex(text) ==
    LET lines == NonEmptyLines(text)
        items == itemsOfLines(candidateLines(lines))
        total == finalTotalRegex(totalOf(text), items)
        tax == taxRegex(total)
    IN  [merchantName |-> merchantNameOf(lines),
         date |-> dateOf(text),
         items |-> Arr(IF items # <<>> THEN items
                       ELSE <<[description |-> <<"Urun", " ", "Bulunamadi">>,
                               quantity |-> Num(1), unitPrice |-> total,
                               totalPrice |-> total, category |-> "",
                               vatRate |-> Num(20)]>>),
         subtotal |-> Sub(total, tax),
         tax |-> tax,
         taxBreakdown |-> Undef,
         total |-> total,
         totalInWords |-> <<>>,
         currency |-> <<"TL">>]

----------------------------------------------------------------------------
(* Input records of the Reconciler *)

\* an item as the extraction supplies it; a category that is absent is held
\* as the empty string
MkItem(desc, price, rate) ==
    [description |-> <<desc>>, quantity |-> Num(1), unitPrice |-> price,
     totalPrice |-> price, category |-> "", vatRate |-> rate]

\* the line items of the model: sound ones at the common rates, a missing
\* rate, a missing price, a negative price, and the negative rates
ItemKinds ==
    { MkItem("A", Kurus(10000), Num(20)),
      MkItem("B", Kurus(5000), Num(20)),
      MkItem("C", Kurus(5000), Num(10)),
      MkItem("D", Kurus(125), Num(0)),
      MkItem("E", Kurus(7), Undef),
      MkItem("F", Undef, Num(20)),
      MkItem("G", Kurus(-500), Num(10)),
      MkItem("H", Kurus(5000), Num(-50)),
      MkItem("I", Kurus(5000), Num(-100)) }

SeqsUpTo(S, n) == UNION {[1..k -> S] : k \in 0..n}

ItemsIn == {Undef} \cup {Arr(s) : s \in SeqsUpTo(ItemKinds, MaxItems)}

TotalIn ==
    {Undef, Kurus(0), Mils(4), Kurus(5000), Kurus(-500), NumStr(5000 * Scale)}
TaxIn == {Undef, Kurus(0), Kurus(900)}
SubtotalIn == {Kurus(0), Str, Kurus(4100)}

\* a breakdown as the extraction may supply it: a rate no item carries,
\* amounts not rounded to the kurus
SuppliedBreakdown ==
    <<[rate |-> Num(18), base |-> Mils(42373), amount |-> Mils(7627)]>>

BreakdownIn == {Undef, Arr(<<>>), Arr(SuppliedBreakdown)}

MkRecord(items, total, tax, subtotal, breakdown) ==
    [merchantName |-> <<"MIGROS">>,
     date |-> <<"2", "0", "2", "4", "-", "0", "5", "-", "2", "2">>,
     items |-> items, subtotal |-> subtotal, tax |-> tax,
     taxBreakdown |-> breakdown, total |-> total,
     totalInWords |-> <<"Yalniz", " ", "Yuz", " ", "Turk", " ", "Lirasi">>,
     currency |-> <<"TL">>]

ReceiptInputs ==
    {MkRecord(i, t, x, s, b) :
        i \in ItemsIn, t \in TotalIn, x \in TaxIn, s \in SubtotalIn,
        b \in BreakdownIn}

----------------------------------------------------------------------------
(* The Reconciler applied to an input record, and applied again *)

\* the result of the App when it is null
Null == [run |-> 0, mock |-> FALSE, via |-> "none"]

\* the App as it is before it is mounted: the specifications of the services
\* leave it so
AppUnused ==
    /\ mistralApiKey = <<>>
    /\ geminiApiKey = <<>>
    /\ inputSource = "null"
    /\ status = "idle"
    /\ statusMessage = ""
    /\ appResult = Null
    /\ runs = <<>>

InitReconcile ==
    /\ pc = "reconcile"
    /\ apiKey = ""
    /\ markdownText = <<>>
    /\ response = "none"
    /\ data \in ReceiptInputs
    /\ result = data
    /\ reconciled = 0
    /\ requests = 0
    /\ returnedObject = "none"
    /\ AppUnused

Reconcile ==
    /\ pc = "reconcile"
    /\ reconciled < MaxApply
    /\ IF recalculateFinancialsThrows(result)
       THEN /\ pc' = "thrown"
            /\ UNCHANGED <<result, reconciled, returnedObject>>
       ELSE /\ result' = recalculateFinancials(result)
            /\ returnedObject' = objectReturned(result)
            /\ reconciled' = reconciled + 1
            /\ pc' = pc
    /\ UNCHANGED <<apiKey, markdownText, response, data, requests>>
    /\ UNCHANGED appVars

NextReconcile == Reconcile

SpecReconcile == InitReconcile /\ [][NextReconcile]_vars

----------------------------------------------------------------------------
(* parseReceiptWithGemini: one invocation *)

\* OCR texts: a receipt with a table row, two summary rows and a date; the
\* three-line texts of the spec's scenarios; the empty text; five lines
\* with one priced line, one line priced 0,00 and no total
TextReceipt ==
    << <<"#", " ", "MIGROS">>,
       <<" ">>,
       <<"|", " ", "SUT", " ", "|", " ", "2", " ", "Adet", " ", "|", " ",
         "*", "3", "5", ",", "5", "0", " ", "|", " ",
         "7", "1", ",", "0", "0", " ", "|">>,
       <<"POSET", " ", "0", ",", "2", "5">>,
       <<"*", "*", "ARA", " ", "TOPLAM", "*", "*", ":", " ",
         "7", "1", ",", "2", "5", " ", "TL">>,
       <<"KDV", " ", "1", "2", ",", "8", "3">>,
       <<"*", "*", "GENEL", " ", "TOPLAM", "*", "*", ":", " ",
         "8", "4", ",", "0", "8", " ", "TL">>,
       <<"TARIH", ":", " ", "2", "2", ".", "0", "5", ".", "2", "0", "2", "4">>,
       <<"TESEKKURLER">> >>

TextScenario ==
    << <<"MARKET">>,
       <<"SUT", " ", "2", " ", "Adet", " ", "3", "5", ",", "5", "0", " ",
         "7", "1", ",", "0", "0">>,
       <<"TOPLAM", ":", " ", "7", "1", ",", "0", "0">> >>

TextNoPrices ==
    << <<"Merchant">>,
       <<"No", " ", "prices", " ", "here">>,
       <<"TOPLAM", ":", " ", "0">> >>

TextNoTotal ==
    << <<"BAKKAL">>,
       <<"EKMEK", " ", "7", ",", "5", "0">>,
       <<"POSET", " ", "0", ",", "0", "0">>,
       <<"NAKIT">>,
       <<"KASIYER", " ", "AHMET">>,
       <<"TESEKKURLER">> >>

\* the item line and the total line of the spec's scenario, the item line
\* within the lines that are candidates; the first line and one of the last
\* three end with a price
TextScenarioWindow ==
    << <<"MARKET", " ", "3", "4">>,
       <<"SUT", " ", "2", " ", "Adet", " ", "3", "5", ",", "5", "0", " ",
         "7", "1", ",", "0", "0">>,
       <<"TOPLAM", ":", " ", "7", "1", ",", "0", "0">>,
       <<"NAKIT", " ", "7", "1", ",", "0", "0">>,
       <<"TESEKKURLER">> >>

SampleTexts ==
    {TextReceipt, TextScenario, TextScenarioWindow, TextNoPrices, TextNoTotal,
     <<>>}

\* credentials: none, blank, and a key
ApiKeys == {<<>>, <<" ">>, <<"key">>}

\* the records a response may parse to
ResponseRecords ==
    {MkRecord(i, t, Undef, Kurus(0), b) :
        i \in ItemsIn,
        t \in {Kurus(0), Mils(4), Kurus(5000), NumStr(5000 * Scale)},
        b \in BreakdownIn}

NoRecord == Undef

Init ==
    /\ pc = "start"
    /\ apiKey \in ApiKeys
    /\ markdownText \in SampleTexts
    /\ response = "none"
    /\ data = NoRecord
    /\ result = NoRecord
    /\ reconciled = 0
    /\ requests = 0
    /\ returnedObject = "none"
    /\ AppUnused

\* NoCredential as it would be if the request were sent all the same and
\* its answer dropped
NoCredentialAsks ==
    /\ pc = "start"
    /\ trim(apiKey) = <<>>
    /\ requests' = requests + 1
    /\ result' = parseViaRegex(markdownText)
    /\ pc' = "done"
    /\ UNCHANGED <<apiKey, markdownText, response, data, reconciled>>
    /\ UNCHANGED <<returnedObject, appVars>>

\* if (!apiKey || apiKey.trim() === '') return parseViaRegex(markdownText)
NoCredential ==
    /\ pc = "start"
    /\ trim(apiKey) = <<>>
    /\ result' = parseViaRegex(markdownText)
    /\ pc' = "done"
    /\ UNCHANGED <<apiKey, markdownText, response, data, reconciled, requests>>
    /\ UNCHANGED <<returnedObject, appVars>>

\* SendRequest as it would be with one more attempt after a request that
\* has not answered
SendRequestRetry ==
    /\ pc \in {"start", "awaiting"}
    /\ trim(apiKey) # <<>>
    /\ requests < 2
    /\ requests' = requests + 1
    /\ pc' = "awaiting"
    /\ UNCHANGED <<apiKey, markdownText, response, data, result, reconciled>>
    /\ UNCHANGED <<returnedObject, appVars>>

\* await ai.models.generateContent(...)
SendRequest ==
    /\ pc = "start"
    /\ trim(apiKey) # <<>>
    /\ requests' = requests + 1
    /\ pc' = "awaiting"
    /\ UNCHANGED <<apiKey, markdownText, response, data, result, reconciled>>
    /\ UNCHANGED <<returnedObject, appVars>>

\* Fallback as it would be if the catch threw the error again
FallbackRethrow(how) ==
    /\ pc = "awaiting"
    /\ response' = how
    /\ pc' = "thrown"
    /\ UNCHANGED <<apiKey, markdownText, data, result, reconciled, requests>>
    /\ UNCHANGED <<returnedObject, appVars>>

\* catch (error) { return parseViaRegex(markdownText) }
Fallback(how) ==
    /\ pc = "awaiting"
    /\ response' = how
    /\ result' = parseViaRegex(markdownText)
    /\ pc' = "done"
    /\ UNCHANGED <<apiKey, markdownText, data, reconciled, requests>>
    /\ UNCHANGED <<returnedObject, appVars>>

\* the request rejects
RequestFails == Fallback("rejected")

\* if (!jsonText) throw new Error("Empty response from Gemini")
EmptyResponse == Fallback("empty")

\* JSON.parse(jsonText) throws
MalformedResponse == Fallback("malformed")

\* const parsedData = JSON.parse(jsonText);
\* return recalculateFinancials(parsedData)
\* and, when that call throws, the catch: return parseViaRegex(markdownText)
ParsedResponse ==
    /\ pc = "awaiting"
    /\ \E d \in ResponseRecords :
          /\ data' = d
          /\ IF recalculateFinancialsThrows(d)
             THEN /\ result' = parseViaRegex(markdownText)
                  /\ UNCHANGED <<reconciled, returnedObject>>
             ELSE /\ result' = recalculateFinancials(d)
                  /\ returnedObject' = objectReturned(d)
                  /\ reconciled' = reconciled + 1
    /\ response' = "json"
    /\ pc' = "done"
    /\ UNCHANGED <<apiKey, markdownText, requests>>
    /\ UNCHANGED appVars

Next ==
    \/ NoCredential
    \/ SendRequest
    \/ RequestFails
    \/ EmptyResponse
    \/ MalformedResponse
    \/ ParsedResponse

Spec == Init /\ [][Next]_vars

----------------------------------------------------------------------------
(* App: handleProcess and the events of the user *)

\* An input is a File, a string that is a URL or a string that is not one
\* (the URL form hands over whatever was typed, trimmed).
Sources == {"file", "url", "text"}

\* !key: the variable is not defined or is the empty string
Missing(key) == key = <<>>

\* the messages handleProcess shows for the errors of processDocument: the
\* message of the error, and the default one for an error without message
\* (the event a FileReader rejects with)
ErrorMessage(err) ==
    CASE err = "invalid" -> "Invalid input source"
      [] err = "api" -> "API Error"
      [] err = "network" -> "Network Error"
      [] err = "read" -> "Islem sirasinda bir hata olustu"

\* the ways the request of processDocument can fail for a source
OcrErrors(source) ==
    {"api", "network"} \cup (IF source = "file" THEN {"read"} ELSE {})

\* a run of handleProcess: where it stands, the inputSource it was started
\* with, whether processDocument took the mock path, the error
\* processDocument rejected with and the path parseReceiptWithGemini took
Run(at, source, mock, error) ==
    [pc |-> at, source |-> source, mock |-> mock, error |-> error,
     via |-> "none"]

\* the OCRResult with receiptData that run r hands to setResult
FinalResult(r, via) == [run |-> r, mock |-> runs[r].mock, via |-> via]

\* the Process button is not disabled
ProcessEnabled ==
    inputSource # "null" /\ status \notin {"processing", "gemini_processing"}

ServicesUnused ==
    /\ pc = "start"
    /\ apiKey = <<>>
    /\ markdownText = <<>>
    /\ response = "none"
    /\ data = NoRecord
    /\ result = NoRecord
    /\ reconciled = 0
    /\ requests = 0
    /\ returnedObject = "none"

InitApp ==
    /\ mistralApiKey \in ApiKeys
    /\ geminiApiKey \in ApiKeys
    /\ inputSource = "null"
    /\ status = "idle"
    /\ statusMessage = ""
    /\ appResult = Null
    /\ runs = <<>>
    /\ ServicesUnused

\* FileUploader offers the drop zone, the file input, the paste handler and
\* the URL form only while nothing is selected;
\* onInputSelect: setInputSource(source); setStatus('idle');
\* setStatusMessage('')
InputSelect(source) ==
    /\ inputSource = "null"
    /\ inputSource' = source
    /\ status' = "idle"
    /\ statusMessage' = ""
    /\ UNCHANGED <<mistralApiKey, geminiApiKey, appResult, runs, serviceVars>>

\* the clear button of the card of the selected input;
\* onClear: setInputSource(null); setResult(null); setStatus('idle')
ClearInput ==
    /\ inputSource # "null"
    /\ inputSource' = "null"
    /\ appResult' = Null
    /\ status' = "idle"
    /\ UNCHANGED <<mistralApiKey, geminiApiKey, statusMessage, runs, serviceVars>>

\* HandleProcess as it would be without the test of the keys
HandleProcessUnchecked ==
    /\ ProcessEnabled
    /\ Len(runs) < MaxRuns
    /\ LET mock == trim(mistralApiKey) = <<>>
       IN  IF ~ mock /\ inputSource = "text"
           THEN /\ status' = "error"
                /\ statusMessage' = ErrorMessage("invalid")
                /\ appResult' = Null
                /\ runs' = Append(runs, Run("failed", inputSource, mock, "invalid"))
           ELSE /\ status' = "processing"
                /\ statusMessage' = IF mock THEN statusMessage ELSE "progress"
                /\ appResult' = Null
                /\ runs' = Append(runs, Run("ocr", inputSource, mock, "none"))
    /\ UNCHANGED <<mistralApiKey, geminiApiKey, inputSource, serviceVars>>

\* a click on the Process button: handleProcess up to its first wait.
\* Without a key: setStatus('error') and return.  Otherwise
\* setStatus('processing'), setResult(null) and processDocument, which with
\* a key and a source that is neither a URL nor a File throws at once, so
\* that the catch of handleProcess runs before any other event.
HandleProcess ==
    /\ ProcessEnabled
    /\ Len(runs) < MaxRuns
    /\ LET mock == trim(mistralApiKey) = <<>>
       IN  IF Missing(mistralApiKey) \/ Missing(geminiApiKey)
           THEN /\ status' = "error"
                /\ statusMessage' = "keys"
                /\ runs' = Append(runs, Run("refused", inputSource, FALSE, "none"))
                /\ UNCHANGED appResult
           ELSE IF ~ mock /\ inputSource = "text"
           THEN /\ status' = "error"
                /\ statusMessage' = ErrorMessage("invalid")
                /\ appResult' = Null
                /\ runs' = Append(runs, Run("failed", inputSource, mock, "invalid"))
           ELSE /\ status' = "processing"
                /\ statusMessage' = IF mock THEN statusMessage ELSE "progress"
                /\ appResult' = Null
                /\ runs' = Append(runs, Run("ocr", inputSource, mock, "none"))
    /\ UNCHANGED <<mistralApiKey, geminiApiKey, inputSource, serviceVars>>

\* processDocument reports its progress: (msg) => setStatusMessage(msg)
Progress(r) ==
    /\ runs[r].pc = "ocr"
    /\ statusMessage' = "progress"
    /\ UNCHANGED <<mistralApiKey, geminiApiKey, inputSource, status, appResult,
                   runs, serviceVars>>

\* OcrResolves as it would be if the OCR result were shown before the
\* receipt is parsed
OcrResolvesShown(r) ==
    /\ runs[r].pc = "ocr"
    /\ status' = "gemini_processing"
    /\ statusMessage' = "parsing"
    /\ appResult' = FinalResult(r, "none")
    /\ runs' = [runs EXCEPT ![r].pc = "parse", ![r].via = "request"]
    /\ UNCHANGED <<mistralApiKey, geminiApiKey, inputSource, serviceVars>>

\* processDocument resolves, with the mock receipt or with the answer of
\* the OCR request: setStatus('gemini_processing') and
\* parseReceiptWithGemini, which without a credential returns at once, so
\* that setResult and setStatus('success') follow before any other event
OcrResolves(r) ==
    /\ runs[r].pc = "ocr"
    /\ IF trim(geminiApiKey) = <<>>
       THEN /\ appResult' = FinalResult(r, "nocredential")
            /\ status' = "success"
            /\ runs' = [runs EXCEPT ![r].pc = "done", ![r].via = "nocredential"]
       ELSE /\ status' = "gemini_processing"
            /\ runs' = [runs EXCEPT ![r].pc = "parse", ![r].via = "request"]
            /\ UNCHANGED appResult
    /\ statusMessage' = "parsing"
    /\ UNCHANGED <<mistralApiKey, geminiApiKey, inputSource, serviceVars>>

\* OcrRejects as it would be if handleProcess went on to the parsing step
\* with the text it has
OcrRejectsGoesOn(r, err) ==
    /\ runs[r].pc = "ocr"
    /\ ~ runs[r].mock
    /\ err \in OcrErrors(runs[r].source)
    /\ status' = "gemini_processing"
    /\ statusMessage' = "parsing"
    /\ runs' = [runs EXCEPT ![r].pc = "parse", ![r].error = err,
                            ![r].via = "request"]
    /\ UNCHANGED <<mistralApiKey, geminiApiKey, inputSource, appResult,
                   serviceVars>>

\* processDocument rejects (the file cannot be read, fetch fails or the
\* response is not ok); catch: setStatus('error');
\* setStatusMessage(error.message || ...)
OcrRejects(r, err) ==
    /\ runs[r].pc = "ocr"
    /\ ~ runs[r].mock
    /\ err \in OcrErrors(runs[r].source)
    /\ status' = "error"
    /\ statusMessage' = ErrorMessage(err)
    /\ runs' = [runs EXCEPT ![r].pc = "failed", ![r].error = err]
    /\ UNCHANGED <<mistralApiKey, geminiApiKey, inputSource, appResult,
                   serviceVars>>

\* parseReceiptWithGemini resolves after its request: setResult(finalResult);
\* setStatus('success')
ParseResolves(r) ==
    /\ runs[r].pc = "parse"
    /\ appResult' = FinalResult(r, runs[r].via)
    /\ status' = "success"
    /\ runs' = [runs EXCEPT ![r].pc = "done"]
    /\ UNCHANGED <<mistralApiKey, geminiApiKey, inputSource, statusMessage,
                   serviceVars>>

NextApp ==
    \/ \E source \in Sources : InputSelect(source)
    \/ ClearInput
    \/ HandleProcess
    \/ \E r \in 1..Len(runs) : Progress(r)
    \/ \E r \in 1..Len(runs) : OcrResolves(r)
    \/ \E r \in 1..Len(runs), err \in {"api", "network", "read"} :
          OcrRejects(r, err)
    \/ \E r \in 1..Len(runs) : ParseResolves(r)

SpecApp == InitApp /\ [][NextApp]_vars

----------------------------------------------------------------------------
(* Properties of one invocation of parseReceiptWithGemini, stated over     *)
(* Spec: once pc = "done", result is the record returned                   *)

\* C1: every record parseReceiptWithGemini returns, on every path (the
\* response parsed, the fallback after a failure, no credential), has
\* passed through recalculateFinancials exactly once.
C1_ReconciledOnce == pc = "done" => reconciled = 1

\* a monetary value that is a number, not negative, of whole hundredths
WellFormedMoney(x) == x.t = "num" /\ x.v >= 0 /\ x.v % Scale = 0

\* C9: in every record the pipeline outputs, total, tax, subtotal and the
\* base and amount of every taxBreakdown entry are non-negative and rounded
\* to 2 decimals, also with negative prices or rates among the items and
\* also when the record comes from the regex fallback.
C9_MoneyWellFormed ==
    pc = "done" =>
        /\ WellFormedMoney(result.total)
        /\ WellFormedMoney(result.tax)
        /\ WellFormedMoney(result.subtotal)
        /\ result.taxBreakdown.t = "arr" =>
              \A i \in 1..Len(result.taxBreakdown.v) :
                  /\ WellFormedMoney(result.taxBreakdown.v[i].base)
                  /\ WellFormedMoney(result.taxBreakdown.v[i].amount)

----------------------------------------------------------------------------
(* Properties of the Reconciler, stated over SpecReconcile: data is the    *)
(* input record and, once reconciled = 1, result is the reconciled record  *)

HasItems(d) == d.items.t = "arr" /\ d.items.v # <<>>
Once == reconciled = 1

IsPositive(x) == x.t = "num" /\ x.v > 0
NoZeroDivisor(d) == \A i \in 1..Len(d.items.v) : d.items.v[i].vatRate # Num(-100)

\* y is x rounded to the hundredth of a lira
RoundedTo2(y, x) ==
    IF x.t = "num"
    THEN y.t = "num" /\ y.v % Scale = 0 /\ 2 * Abs(y.v - x.v) <= Scale
    ELSE y = x

\* total = subtotal + tax to within one hundredth
Balanced(d) ==
    /\ d.total.t = "num" /\ d.subtotal.t = "num" /\ d.tax.t = "num"
    /\ Abs(d.total.v - (d.subtotal.v + d.tax.v)) <= Scale

RECURSIVE SumBase(_)
SumBase(bd) == IF bd = <<>> THEN 0 ELSE Head(bd).base.v + SumBase(Tail(bd))

RECURSIVE SumAmount(_)
SumAmount(bd) == IF bd = <<>> THEN 0 ELSE Head(bd).amount.v + SumAmount(Tail(bd))

NoneSupplied(x) == x.t = "undef" \/ (x.t = "arr" /\ x.v = <<>>)

\* the entries of bd sum to subtotal and to tax, to within one hundredth
\* for each entry
Partitioned(d) ==
    LET bd == d.taxBreakdown.v
    IN  /\ d.subtotal.t = "num" /\ d.tax.t = "num"
        /\ \A i \in 1..Len(bd) : bd[i].base.t = "num" /\ bd[i].amount.t = "num"
        /\ Abs(SumBase(bd) - d.subtotal.v) <= Len(bd) * Scale
        /\ Abs(SumAmount(bd) - d.tax.v) <= Len(bd) * Scale

ClaimRate(item) == IF item.vatRate.t = "num" THEN item.vatRate ELSE Num(0)

DistinctRates(d) == {ClaimRate(d.items.v[i]) : i \in 1..Len(d.items.v)}

\* one entry for each rate of the items, and no other entry
OneEntryPerRate(d, r) ==
    LET bd == r.taxBreakdown.v
    IN  /\ {bd[i].rate : i \in 1..Len(bd)} = DistinctRates(d)
        /\ Len(bd) = Cardinality(DistinctRates(d))

Overridden(out, supplied, calculated) ==
    IF IsPositive(supplied) THEN RoundedTo2(out, supplied)
    ELSE RoundedTo2(out, calculated)

RECURSIVE SumNums(_)
SumNums(ns) == IF ns = <<>> THEN Num(0) ELSE Add(Head(ns), SumNums(Tail(ns)))

\* the items that count under the rate r
AtRate(items, r) == SelectSeq(items, LAMBDA it : ClaimRate(it) = r)

\* the sums of the bases and of the taxes of a sequence of items
BaseSum(sel) == SumNums([i \in 1..Len(sel) |-> ItemBase(sel[i])])
TaxSum(sel) == SumNums([i \in 1..Len(sel) |-> ItemTax(sel[i])])

\* bd is the per-rate breakdown computed from the items: one entry per rate,
\* holding the rounded sums of the bases and of the taxes of that rate
FreshBreakdown(bd, d) ==
    /\ OneEntryPerRate(d, [taxBreakdown |-> Arr(bd)])
    /\ \A i \in 1..Len(bd) :
          /\ RoundedTo2(bd[i].base, BaseSum(AtRate(d.items.v, bd[i].rate)))
          /\ RoundedTo2(bd[i].amount, TaxSum(AtRate(d.items.v, bd[i].rate)))

\* C6: for a record with at least one item the reconciled taxBreakdown is
\* exactly the input's taxBreakdown when that is non-empty, and exactly the
\* breakdown computed per rate from the items otherwise; never a mix.
C6_BreakdownAllOrNothing ==
    (Once /\ HasItems(data)) =>
        IF NoneSupplied(data.taxBreakdown)
        THEN FreshBreakdown(result.taxBreakdown.v, data)
        ELSE result.taxBreakdown = data.taxBreakdown

\* C6: a state in which the case of the claim has happened
C6_Witness ==
    /\ Once /\ HasItems(data)
    /\ data.taxBreakdown = Arr(SuppliedBreakdown)
    /\ result.taxBreakdown = Arr(SuppliedBreakdown)
    /\ Num(18) \notin DistinctRates(data)

\* C7: when the input's items is empty or absent the Reconciler returns the
\* record unchanged, total, tax, subtotal and taxBreakdown included.
C7_EmptyItemsNoOp == (Once /\ ~ HasItems(data)) => result = data

\* C7: a state in which the case of the claim has happened
C7_Witness ==
    /\ Once
    /\ data.items = Arr(<<>>)
    /\ data.total = Mils(4) /\ data.tax = Undef
    /\ data.taxBreakdown = Arr(<<>>)
    /\ result.total = Mils(4)

\* C8: reconciling a reconciled record with non-empty items changes nothing:
\* reconcile(reconcile(r)) = reconcile(r), field by field.
C8_Idempotent ==
    [][(reconciled = 1 /\ HasItems(data)) => result' = result]_vars

\* the gross price of an item and its rate in percent, 0 when no number
ClaimGross(item) == IF item.totalPrice.t = "num" THEN item.totalPrice.v ELSE 0
ClaimPercent(item) == ClaimRate(item).v

\* gross * rate / (100 + rate), for a rate other than -100
ClaimTax(item) ==
    (ClaimGross(item) \div (100 + ClaimPercent(item))) * ClaimPercent(item)

RECURSIVE SumGross(_)
SumGross(items) ==
    IF items = <<>> THEN 0 ELSE ClaimGross(Head(items)) + SumGross(Tail(items))

RECURSIVE SumTax(_)
SumTax(items) ==
    IF items = <<>> THEN 0 ELSE ClaimTax(Head(items)) + SumTax(Tail(items))

ZeroOrAbsent(x) == x = Undef \/ x = Num(0)

\* C10: when the input's total, tax and subtotal are all zero or absent and
\* items is non-empty, the reconciled total is the sum of the items'
\* totalPrice, tax the sum of totalPrice * rate / (100 + rate) and subtotal
\* the sum of totalPrice less that tax, each summed unrounded and rounded to
\* 2 decimals once; items summing to 100.00 at rate 20 give total 100.00,
\* tax 16.67 and subtotal 83.33.  (With a rate of -100 the quotient is no
\* finite number, and neither is the tax.)
C10_CalculatedTotals ==
    (/\ Once /\ HasItems(data)
     /\ ZeroOrAbsent(data.total) /\ ZeroOrAbsent(data.tax)
     /\ ZeroOrAbsent(data.subtotal))
    => LET items == data.items.v
       IN  /\ RoundedTo2(result.total, Num(SumGross(items)))
           /\ NoZeroDivisor(data) =>
                 /\ RoundedTo2(result.tax, Num(SumTax(items)))
                 /\ RoundedTo2(result.subtotal,
                               Num(SumGross(items) - SumTax(items)))
           /\ ~ NoZeroDivisor(data) => result.tax.t # "num"
           /\ (/\ SumGross(items) = 10000 * Scale
               /\ \A i \in 1..Len(items) : items[i].vatRate = Num(20))
              => /\ result.total = Kurus(10000)
                 /\ result.tax = Kurus(1667)
                 /\ result.subtotal = Kurus(8333)

\* C10: a state in which the case of the claim has happened
C10_Witness ==
    /\ Once
    /\ data.total = Kurus(0) /\ data.tax = Undef /\ data.subtotal = Kurus(0)
    /\ data.items.t = "arr" /\ Len(data.items.v) = 2
    /\ \A i \in 1..2 : data.items.v[i] = MkItem("B", Kurus(5000), Num(20))
    /\ result.total = Kurus(10000)
    /\ result.tax = Kurus(1667)
    /\ result.subtotal = Kurus(8333)

\* C11: for every item whose gross price and rate are numbers >= 0, the
\* decomposition the Reconciler uses gives baseAmount + taxAmount equal to
\* the gross price and 0 <= taxAmount <= gross; the tax and subtotal of a
\* reconciled record of that single item, when calculated, are these two
\* amounts rounded.
C11_DecompositionInverse ==
    (Once /\ HasItems(data)) =>
        \A i \in 1..Len(data.items.v) :
            LET item == data.items.v[i]
                gross == item.totalPrice
                rate == item.vatRate
            IN  (/\ IsFinite(gross) /\ gross.v >= 0
                 /\ IsFinite(rate) /\ rate.v >= 0)
                => /\ Add(ItemBase(item), ItemTax(item)) = gross
                   /\ ItemTax(item).t = "num"
                   /\ 0 <= ItemTax(item).v /\ ItemTax(item).v <= gross.v
                   /\ (/\ Len(data.items.v) = 1
                       /\ ~ IsPositive(data.tax) /\ ~ IsPositive(data.subtotal))
                      => /\ RoundedTo2(result.tax, ItemTax(item))
                         /\ RoundedTo2(result.subtotal,
                                       Num(gross.v - ItemTax(item).v))

\* C11: a state in which the case of the claim has happened
C11_Witness ==
    /\ Once
    /\ data.items = Arr(<<MkItem("A", Kurus(10000), Num(20))>>)
    /\ ~ IsPositive(data.tax) /\ ~ IsPositive(data.subtotal)
    /\ result.tax = Kurus(1667)
    /\ result.subtotal = Kurus(8333)

\* a rate that is zero, negative or missing
NonPositiveRate(item) == item.vatRate.t # "num" \/ item.vatRate.v <= 0

\* C12: an item whose vatRate is zero, negative or missing is decomposed as
\* rate 0: its taxAmount is 0, its baseAmount is its gross price, and it is
\* accumulated under the breakdown rate 0, so that no rate gives a division
\* by zero or a negative tax.
C12_NonPositiveRateAsZero ==
    (Once /\ HasItems(data)) =>
        \A i \in 1..Len(data.items.v) :
            LET item == data.items.v[i]
            IN  NonPositiveRate(item)
                => /\ ItemTax(item) = Num(0)
                   /\ ItemBase(item) = ItemPrice(item)
                   /\ ItemRate(item) = Num(0)
                   /\ ~ (Truthy(data.taxBreakdown)
                         /\ Len(data.taxBreakdown.v) > 0)
                      => \E k \in 1..Len(result.taxBreakdown.v) :
                            result.taxBreakdown.v[k].rate = Num(0)

\* C18: the Reconciler never throws, whatever is missing, null, not a
\* number or negative among totalPrice, vatRate, total, tax and subtotal.
C18_NeverThrows == pc # "thrown"

----------------------------------------------------------------------------
(* Properties of the fallback and of the request, stated over Spec         *)

\* the record returned came from parseViaRegex
FromFallback == pc = "done" /\ reconciled = 0

\* the non-empty lines of the text and, among their indices, those other
\* than the first and the last three
ClaimLines == NonEmptyLines(markdownText)
ClaimWindow == {k \in 1..Len(ClaimLines) : k >= 2 /\ k <= Len(ClaimLines) - 3}
Yielding == {k \in ClaimWindow : itemsOfLine(ClaimLines[k]) # <<>>}

\* the total detected in the text, 0 when none
ClaimDetected ==
    IF IsPositive(totalOf(markdownText)) THEN totalOf(markdownText) ELSE Num(0)

\* items is the placeholder item alone, carrying the amount x
OnlyPlaceholder(items, x) ==
    /\ items.t = "arr" /\ Len(items.v) = 1
    /\ items.v[1].description = <<"Urun", " ", "Bulunamadi">>
    /\ items.v[1].quantity = Num(1)
    /\ items.v[1].unitPrice = x
    /\ items.v[1].totalPrice = x

\* the credential is empty or white space only
Blank(key) == \A i \in 1..Len(key) : key[i] \in {" ", "\t", "\n"}

\* C13: with a credential that is not blank, a request that rejects, an
\* empty body and a body that is not JSON are never surfaced: the invocation
\* never ends by throwing, and it returns the record the regex fallback
\* produces for the same text.
C13_FailureFallsBack ==
    /\ pc # "thrown"
    /\ (pc = "done" /\ response \in {"rejected", "empty", "malformed"})
       => /\ ~ Blank(apiKey)
          /\ result = parseViaRegex(markdownText)

\* C13: a state in which the case of the claim has happened
C13_Witness ==
    /\ pc = "done" /\ response = "malformed" /\ ~ Blank(apiKey)
    /\ markdownText = TextReceipt
    /\ result.total = Mils(71250)

\* C14: with a credential that is absent, empty or white space only, no
\* request is ever sent and the record returned is the one the regex
\* fallback produces for the text, a function of the text alone.
C14_NoCredentialNoRequest ==
    Blank(apiKey)
    => /\ requests = 0 /\ response = "none"
       /\ pc \in {"start", "done"}
       /\ pc = "done" => /\ reconciled = 0
                         /\ result = parseViaRegex(markdownText)

\* C14: a state in which the case of the claim has happened
C14_Witness ==
    /\ pc = "done" /\ apiKey = <<" ">> /\ requests = 0
    /\ markdownText = TextScenarioWindow
    /\ result.total = Kurus(7100)

\* C15: a record of the fallback has at least one item; when no candidate
\* line yields an item, items is the placeholder item alone, of quantity 1,
\* its unitPrice and totalPrice the detected total, or 0 when none was.
C15_FallbackHasItem ==
    FromFallback
    => /\ result.items.t = "arr" /\ Len(result.items.v) >= 1
       /\ Yielding = {} => OnlyPlaceholder(result.items, ClaimDetected)

\* C15: states in which the case of the claim has happened
C15_Witness ==
    /\ FromFallback /\ markdownText = TextNoPrices
    /\ OnlyPlaceholder(result.items, Num(0))

\* the text holds the item line and the total line of the scenario
HasScenarioLines ==
    /\ \E k \in 1..Len(markdownText) :
          markdownText[k] = <<"SUT", " ", "2", " ", "Adet", " ",
                              "3", "5", ",", "5", "0", " ",
                              "7", "1", ",", "0", "0">>
    /\ \E k \in 1..Len(markdownText) :
          markdownText[k] = <<"TOPLAM", ":", " ", "7", "1", ",", "0", "0">>

\* C16: for a text holding the item line "SUT 2 Adet 35,50 71,00" and the
\* line "TOPLAM: 71,00" the fallback returns exactly one item, of
\* description "SUT" and totalPrice 71.00, with total 71.00, tax 12.78 and
\* subtotal 58.22.
C16_Scenario ==
    (FromFallback /\ HasScenarioLines)
    => /\ Len(result.items.v) = 1
       /\ result.items.v[1].description = <<"SUT">>
       /\ result.items.v[1].totalPrice = Kurus(7100)
       /\ result.total = Kurus(7100)
       /\ result.tax = Kurus(1278)
       /\ result.subtotal = Kurus(5822)

\* the total of the record returned is backed by an amount of at least half
\* a hundredth: for a reconciled record the supplied total when positive and
\* else the sum of the items' prices; for a record of the fallback a
\* detected positive total or an item of a candidate line
ClaimBacked ==
    IF reconciled = 1
    THEN IF IsPositive(data.total) THEN data.total.v >= Scale \div 2
         ELSE SumGross(data.items.v) >= Scale \div 2
    ELSE IsPositive(totalOf(markdownText)) \/ Yielding # {}

\* C17 as stated: whenever the record returned has at least one item, its
\* total is a positive number.
C17_PositiveTotalAlways ==
    (pc = "done" /\ HasItems(result)) => IsPositive(result.total)

\* C17 amended: a record returned with at least one item has a positive
\* total exactly when that total is backed: the supplied total, or else the
\* sum of the items' prices, is at least 0.005 (reconciled record); a
\* positive total was detected or a candidate line gave an item (fallback).
C17_PositiveTotalWhenBacked ==
    (pc = "done" /\ HasItems(result))
    => (IsPositive(result.total) <=> ClaimBacked)

\* C17: a state in which the case of the claim has happened
C17_Witness ==
    /\ pc = "done" /\ reconciled = 1
    /\ data.items = Arr(<<MkItem("A", Kurus(10000), Num(20))>>)
    /\ data.total = Kurus(0)
    /\ result.total = Kurus(10000)

\* C19: an invocation sends at most one request, and from the request it
\* awaits it goes straight to its return, by the parsed response or by the
\* fallback, with no other request and no other wait.
C19_OneRequest ==
    [][/\ requests' <= 1
       /\ pc = "awaiting" => (pc' = "done" /\ requests' = requests)]_vars

\* C19: a state in which the case of the claim has happened
C19_Witness ==
    /\ pc = "done" /\ requests = 1 /\ response = "rejected"
    /\ result = parseViaRegex(markdownText)
    /\ markdownText = TextNoTotal

\* C20: the items of the fallback are those of the non-empty lines other
\* than the first and the last three, one for each such line that yields
\* one and in no other number; a text of four non-empty lines or fewer
\* gives the placeholder item alone.
C20_CandidateWindow ==
    FromFallback
    => /\ IF Yielding = {}
          THEN OnlyPlaceholder(result.items, result.total)
          ELSE /\ Len(result.items.v) = Cardinality(Yielding)
               /\ \A j \in 1..Len(result.items.v) :
                     \E k \in Yielding :
                        itemsOfLine(ClaimLines[k]) = <<result.items.v[j]>>
       /\ Len(ClaimLines) <= 4
          => OnlyPlaceholder(result.items, result.total)

\* C20: a state in which the case of the claim has happened
C20_Witness ==
    /\ FromFallback /\ markdownText = TextReceipt
    /\ Len(result.items.v) = 2
    /\ itemsOfLine(ClaimLines[Len(ClaimLines) - 1]) # <<>>

\* the runs of letters in which one of toplam, kdv, subtotal, total, ara
\* toplam occurs, whatever the case
ClaimKeywords == {"TOPLAM", "Toplam", "TOTAL", "SUBTOTAL", "KDV"}

\* what the price pattern finds in the k-th non-empty line
ClaimMatch(k) == priceLineMatch(cleanLine(ClaimLines[k]))
ClaimDesc(k) == trim(ClaimMatch(k).desc)
ClaimPrice(k) == parseFloat(replaceComma(ClaimMatch(k).price))

\* the lines of the window that match the price pattern with a summary
\* keyword in the description, and those that match without one and with a
\* positive price
ClaimHasKeyword(desc) == \E i \in 1..Len(desc) : desc[i] \in ClaimKeywords
ClaimSummaryRows ==
    {k \in ClaimWindow :
        LET match == ClaimMatch(k)
        IN  match.matched /\ ClaimHasKeyword(trim(match.desc))}
ClaimPriced ==
    {k \in ClaimWindow :
        LET match == ClaimMatch(k)
        IN  /\ match.matched
            /\ ~ ClaimHasKeyword(trim(match.desc))
            /\ IsPositive(parseFloat(replaceComma(match.price)))}

\* the j-th line of the set P of lines in the order of the text
ClaimPricedAt(P, j) ==
    CHOOSE k \in P : Cardinality({i \in P : i <= k}) = j

\* C21: no item of the fallback has a description in which a total or VAT
\* keyword occurs: the summary rows of the window give no item.
C21_NoSummaryItems ==
    FromFallback
    => /\ \A j \in 1..Len(result.items.v) :
             \A i \in 1..Len(result.items.v[j].description) :
                result.items.v[j].description[i] \notin ClaimKeywords
       /\ Len(result.items.v) <=
             Max({1, Cardinality(ClaimWindow \ ClaimSummaryRows)})

\* C21: a state in which the case of the claim has happened
C21_Witness ==
    /\ FromFallback /\ markdownText = TextReceipt
    /\ Cardinality(ClaimSummaryRows) = 2
    /\ \E k \in ClaimSummaryRows :
          LET desc == ClaimDesc(k) IN \E i \in 1..Len(desc) : desc[i] = "KDV"
    /\ Len(result.items.v) = 2

\* C22: the fallback emits one item for each line of the window that
\* matches with a positive price, in the order of the lines, with quantity
\* 1, unitPrice and totalPrice the matched price and vatRate 20; a matched
\* line whose price is not a positive number emits no item.
C22_ItemFields ==
    FromFallback
    => LET P == ClaimPriced
       IN  P # {}
           => /\ Len(result.items.v) = Cardinality(P)
              /\ \A j \in 1..Len(result.items.v) :
                    LET item == result.items.v[j]
                        match == ClaimMatch(ClaimPricedAt(P, j))
                        price == parseFloat(replaceComma(match.price))
                    IN  /\ item.description = trim(match.desc)
                        /\ item.quantity = Num(1)
                        /\ item.unitPrice = price
                        /\ item.totalPrice = price
                        /\ item.vatRate = Num(20)

\* C22: a state in which the case of the claim has happened
C22_Witness ==
    /\ FromFallback /\ markdownText = TextNoTotal
    /\ \E k \in ClaimWindow \ ClaimSummaryRows :
          ClaimMatch(k).matched /\ ClaimPrice(k) = Num(0)
    /\ Len(result.items.v) = 1
    /\ result.items.v[1].unitPrice = Mils(7500)

\* the sum of the prices of the lines of ClaimPriced
RECURSIVE ClaimPricedSum(_)
ClaimPricedSum(S) ==
    IF S = {} THEN 0
    ELSE LET k == CHOOSE x \in S : TRUE
         IN  ClaimPrice(k).v + ClaimPricedSum(S \ {k})

\* C23: in the record of the fallback tax is 0.18 times total and subtotal
\* is total less tax, total being the detected total when it is positive
\* and the sum of the prices of the items otherwise; the vatRate 20 of the
\* items plays no part.
C23_FallbackFinancials ==
    FromFallback
    => /\ result.total =
             IF IsPositive(totalOf(markdownText))
             THEN totalOf(markdownText)
             ELSE Num(ClaimPricedSum(ClaimPriced))
       /\ result.total.v % 100 = 0
       /\ result.tax = Num((result.total.v \div 100) * 18)
       /\ result.subtotal = Num(result.total.v - result.tax.v)

\* C23: a state in which the case of the claim has happened
C23_Witness ==
    /\ FromFallback /\ markdownText = TextReceipt
    /\ result.total = Mils(71250)
    /\ result.tax = Mils(12825)
    /\ \A j \in 1..Len(result.items.v) : result.items.v[j].vatRate = Num(20)

\* the places of the text where a totals keyword is followed by a number
ClaimOccurrences ==
    {i \in 1..Len(JoinLines(markdownText)) :
        /\ JoinLines(markdownText)[i] \in
              {"TOPLAM", "Toplam", "TOTAL", "TUTAR", "AMOUNT", "SUBTOTAL"}
        /\ TotalCapture(JoinLines(markdownText), i) # <<>>}
ClaimAmountAt(i) ==
    parseFloat(replaceComma(TotalCapture(JoinLines(markdownText), i)))

\* C24: the total of the fallback is the amount of the first place of the
\* text where a totals keyword is followed by a number; the later places
\* play no part.
C24_FirstTotalWins ==
    (FromFallback /\ ClaimOccurrences # {})
    => IF IsPositive(ClaimAmountAt(Min(ClaimOccurrences)))
       THEN result.total = ClaimAmountAt(Min(ClaimOccurrences))
       ELSE result.total = Num(ClaimPricedSum(ClaimPriced))

\* C24: a state in which the case of the claim has happened
C24_Witness ==
    /\ FromFallback /\ markdownText = TextReceipt
    /\ Cardinality(ClaimOccurrences) = 2
    /\ ClaimAmountAt(Max(ClaimOccurrences)) = Mils(84080)
    /\ result.total = ClaimAmountAt(Min(ClaimOccurrences))
    /\ result.total = Mils(71250)

\* the fields the Reconciler computes
ClaimComputed == {"total", "tax", "subtotal", "taxBreakdown"}

\* a call of the Reconciler that returns leaves every field other than the
\* computed ones as it is in its argument, and its argument as it was
ClaimFrame ==
    /\ data' = data
    /\ DOMAIN result' = DOMAIN result
    /\ \A f \in DOMAIN result \ ClaimComputed : result'[f] = result[f]

\* C25 as stated: the Reconciler changes only total, tax, subtotal and
\* taxBreakdown, and the record it returns is always a new object.
C25_FrameNewObject ==
    [][reconciled' = reconciled + 1
       => (ClaimFrame /\ returnedObject' = "new")]_vars

\* C25: the Reconciler changes only total, tax, subtotal and taxBreakdown;
\* its argument is not mutated, items and every other field of the record
\* returned equal the argument's, and the record returned is a new object
\* when items is non-empty and the argument itself when items is empty or
\* absent.
C25_Frame ==
    [][reconciled' = reconciled + 1
       => /\ ClaimFrame
          /\ returnedObject' = IF HasItems(result) THEN "new" ELSE "input"]_vars

\* C25: a state in which the case of the claim has happened
C25_Witness ==
    /\ Once /\ HasItems(data)
    /\ returnedObject = "new"
    /\ result.total # data.total /\ result.taxBreakdown # data.taxBreakdown
    /\ result.items = data.items /\ result.totalInWords = data.totalInWords

----------------------------------------------------------------------------
(* Claims over SpecApp *)

\* the runs of handleProcess that have started and not finished
InFlight == {r \in 1..Len(runs) : runs[r].pc \in {"ocr", "parse"}}

\* C26: at most one handleProcess pipeline is in flight at any time,
\* whatever the user does: a second one cannot start while an earlier one
\* has not finished.
C26_OnePipeline == Cardinality(InFlight) <= 1

\* C27: once the input is cleared, result stays null and status stays
\* 'idle' until the user starts a new handleProcess: no step other than
\* the start of a run takes the App out of the idle state without result.
C27_ClearedStaysIdle ==
    [][(status = "idle" /\ appResult = Null /\ Len(runs') = Len(runs))
       => (status' = "idle" /\ appResult' = Null)]_vars

ClaimSteps(r) == r <= Len(runs) /\ runs'[r] # runs[r]

ClaimRefused ==
    /\ (Len(runs') > Len(runs)
          /\ (Missing(mistralApiKey) \/ Missing(geminiApiKey)))
       => /\ runs'[Len(runs')].pc = "refused"
          /\ status' = "error"
          /\ appResult' = appResult
    /\ \A r \in 1..Len(runs) : runs[r].pc = "refused" => runs'[r] = runs[r]

\* C29 as stated: with a key missing handleProcess sets status 'error',
\* calls neither service and leaves result unchanged; hence no run of the
\* App takes the mock path of processDocument or the no-credential
\* fallback of parseReceiptWithGemini.
C29_NeverMockNorFallback ==
    [][/\ ClaimRefused
       /\ \A r \in 1..Len(runs') :
             ~ runs'[r].mock /\ runs'[r].via # "nocredential"]_vars

\* C29: with a key missing (not defined or the empty string) handleProcess
\* sets status 'error', calls neither service and leaves result unchanged;
\* a run takes the mock path of processDocument only with a Mistral key
\* that is not empty and holds white space only, and the no-credential
\* fallback of parseReceiptWithGemini only with such a Gemini key.
C29_MissingKeyRefused ==
    [][/\ ClaimRefused
       /\ \A r \in 1..Len(runs') :
             /\ runs'[r].mock
                => (mistralApiKey # <<>> /\ Blank(mistralApiKey))
             /\ runs'[r].via = "nocredential"
                => (geminiApiKey # <<>> /\ Blank(geminiApiKey))
             /\ runs'[r].pc # "refused"
                => (mistralApiKey # <<>> /\ geminiApiKey # <<>>)]_vars

\* C29: a state in which the case of the claim has happened
C29_Witness ==
    /\ mistralApiKey = <<"key">> /\ geminiApiKey = <<>>
    /\ Len(runs) = 2 /\ runs[1].pc = "refused" /\ runs[2].pc = "refused"
    /\ inputSource = "file"
    /\ status = "error" /\ statusMessage = "keys"
    /\ appResult = Null

\* run r fails at the OCR stage in this step
ClaimFails(r) ==
    /\ runs'[r].error # "none"
    /\ r > Len(runs) \/ runs[r].error = "none"

\* what every failure of the OCR stage does: processDocument rejects, the
\* run ends with status 'error' and the message of the error, and
\* parseReceiptWithGemini is not called; with a key, a source that is
\* neither a URL nor a File always fails
ClaimSurfaced ==
    \A r \in 1..Len(runs') :
       /\ ClaimFails(r)
          => /\ runs'[r].pc = "failed" /\ runs'[r].via = "none"
             /\ status' = "error"
             /\ statusMessage' = ErrorMessage(runs'[r].error)
       /\ (r <= Len(runs) /\ runs[r].pc = "failed") => runs'[r] = runs[r]
       /\ (~ runs'[r].mock /\ runs'[r].source = "text"
             /\ runs'[r].pc # "refused")
          => (runs'[r].pc = "failed" /\ runs'[r].error = "invalid")

====
